---------------------------- MODULE Spec2Model ----------------------------
(***************************************************************************)
(* Verification model of the disaster-response backend: the time-bounded   *)
(* cache (utils/cache.js), the resource search and creation routes         *)
(* (routes/resources.js), the disaster routes (routes/disasters.js), the   *)
(* social-media and official-updates routes and the socket server          *)
(* (index.js), over the tables of the migration.                           *)
(*                                                                         *)
(* Every `await` on the datastore is a suspension point: a handler is a    *)
(* process whose steps are the stretches of code between two awaits, and   *)
(* the steps of different requests interleave freely.  Every datastore     *)
(* call may fail (supabase reports {error} or the transport throws).       *)
(* Time is the wall clock in milliseconds, as Date.now() gives it.         *)
(***************************************************************************)
EXTENDS Integers, Sequences, FiniteSets, TLC

VARIABLES
    now,        \* the wall clock, ms
    cache,      \* rows of table cache: [key, value, expires_at]
    disasters,  \* rows of table disasters: [id, title, owner_id, audit_trail]
    resources,  \* rows of table resources
    nextUuid,   \* how many uuidv4() values have been drawn so far
    pc,         \* per request: where its handler is suspended
    call,       \* per request: the frame of its getCachedData/setCachedData call
    req,        \* per request: the HTTP request it serves (NoReq for a bare cache call)
    hloc,       \* per request: the handler's locals
    res,        \* per request: what was returned (cache call) or answered (HTTP)
    lastMut,    \* history: per cache key, the last write that reached the table
    sweep,      \* the frame of the running cleanExpiredCache call
    served,     \* per request slot: how many HTTP requests have arrived on it
    sockets,    \* per connection of the socket server: status, rooms, events sent to it
    geo         \* the frame of a calculateDistance call: its arguments and its result

vars == <<now, cache, disasters, resources, nextUuid, pc, call, req, hloc, res,
          lastMut, sweep, served, sockets, geo>>

----------------------------------------------------------------------------
(* Bounds of the model *)

\* the clock of the bare cache calls stops advancing here (ms)
MaxNow == 2000
\* the clock of the request handlers stops advancing here (ms)
MaxSearchNow == 1801000
\* no uuid is drawn past this one
MaxUuid == 11
\* no resource is created while the table holds this many
MaxResources == 2
\* no more HTTP requests than this arrive in all
MaxRequests == 3
\* no more HTTP requests than this arrive while the connections are watched
MaxPublishing == 2

Procs == {"p1", "p2"}

\* the HTTP requests that have arrived so far
Arrived == served["p1"] + served["p2"]
\* the requests that make bare cache calls
Callers == {"p1"}


----------------------------------------------------------------------------
(* JavaScript values *)

Null == [null |-> TRUE]
Undefined == [undefined |-> TRUE]

\* a numeric query-string or body parameter
Num(n) == [num |-> n]

\* JS truthiness of a request parameter: a present (non-empty) query string
\* is truthy whatever number it spells, "0" included
Truthy(x) == x # Undefined /\ x # Null

----------------------------------------------------------------------------
(* utils/cache.js *)

\* bare cache calls of the cache specification
Keys == {"k1", "k2"}
Values == {[v |-> "a"], [v |-> "b"]}
Ttls == {-1, 0, 1}

MsPerSecond == 1000

\* the frame of a cache call.  key, value, ttl, expiresAt, data and error are
\* the code's; t0 (when the call was made), at (when get compared the expiry
\* with the clock), seen (the last write of the key when get read it),
\* deleteError (the outcome get ignores) and over (the upsert found a row of
\* the key) are history.
NoCall == [fn |-> "none", key |-> Null, value |-> Null, ttl |-> 0, t0 |-> 0,
           expiresAt |-> 0, data |-> Null, error |-> FALSE, at |-> 0,
           seen |-> Null, deleteError |-> FALSE, over |-> FALSE]

\* history of a key: no write yet, [kind |-> "delete"], or the last
\* setCachedData whose upsert the table took: [kind |-> "set", value, ttl,
\* t0 (when it was called)]
NoMut == [kind |-> "none"]

\* the history is kept for the keys of DOMAIN lastMut only
Seen(key) == IF key \in DOMAIN lastMut THEN lastMut[key] ELSE NoMut
Record(key, m) ==
    IF key \in DOMAIN lastMut THEN [lastMut EXCEPT ![key] = m] ELSE lastMut

RowsOf(key) == {r \in cache : r.key = key}

\* .single(): the one row, or error PGRST116 (no row, or several)
Single(rows) == IF Cardinality(rows) = 1 THEN CHOOSE r \in rows : TRUE ELSE Null

\* (mutant: an entry expiring at this very time counts as expired)
IsExpiredInclusive(expires_at, t) == expires_at <= t

\* (mutant: no entry ever counts as expired)
IsExpiredNever(expires_at, t) == FALSE

\* new Date(data.expires_at) < new Date()
IsExpired(expires_at, t) == expires_at < t

\* (mutant: the ttl taken for milliseconds)
ExpiresAtMillis(t, ttlSeconds) == t + ttlSeconds

\* new Date(Date.now() + (ttlSeconds * 1000))
ExpiresAt(t, ttlSeconds) == t + (ttlSeconds * MsPerSecond)

\* (mutant: an insert that leaves an existing row of the key as it is)
InsertIgnore(rows, key, value, expires_at) ==
    IF \E r \in rows : r.key = key THEN rows
    ELSE rows \cup {[key |-> key, value |-> value, expires_at |-> expires_at]}

\* .upsert({key, value, expires_at}) on primary key `key`
Upsert(rows, key, value, expires_at) ==
    {r \in rows : r.key # key}
        \cup {[key |-> key, value |-> value, expires_at |-> expires_at]}

\* (mutant: the delete matches no row)
DeleteNone(rows, key) == rows

\* .delete().eq('key', key)
DeleteKey(rows, key) == {r \in rows : r.key # key}

\* (mutant: the sweep deletes nothing)
DeleteExpiredNone(rows, cutoff) == rows

\* (mutant: lte instead of lt)
DeleteExpiredInclusive(rows, cutoff) == {r \in rows : ~(r.expires_at <= cutoff)}

\* .delete().lt('expires_at', cutoff)
DeleteExpired(rows, cutoff) == {r \in rows : ~(r.expires_at < cutoff)}



----------------------------------------------------------------------------
(* The socket server (io) and its rooms                                    *)

\* the connections a client can open
Conns == {"s1", "s2"}

\* a connection not opened yet; status goes "none", "connected",
\* "disconnected"; inbox is history, the events emitted to the connection
NoSocket == [status |-> "none", rooms |-> {}, inbox |-> << >>]

\* the room `disaster_${disasterId}`
Room(disasterId) == [room |-> disasterId]

\* req.io itself: every connected socket
Global == [global |-> TRUE]

\* an emit: to(scope).emit(name, payload), made by the request numbered by
Event(scope, name, payload, by) ==
    [scope |-> scope, event |-> name, payload |-> payload, by |-> by]

\* the request of slot p in flight: the slot and its count of arrivals
Rid(p) == <<p, served[p]>>

\* (mutant: a room emit reaches every connected socket)
AddressedAny(s, scope) == s.status = "connected"

\* whether an emit to scope reaches socket s
Addressed(s, scope) ==
    IF scope = Global THEN s.status = "connected" ELSE scope \in s.rooms

\* io.to(...).emit(...): the event is sent to the sockets it reaches
Emit(socks, e) ==
    [c \in Conns |-> IF Addressed(socks[c], e.scope)
                     THEN [socks[c] EXCEPT !.inbox = Append(@, e)]
                     ELSE socks[c]]

RECURSIVE EmitAll(_, _)
\* the emits of one handler step, in order
EmitAll(socks, events) ==
    IF events = << >> THEN socks
    ELSE EmitAll(Emit(socks, Head(events)), Tail(events))

\* (mutant: joining a room replays an event to the socket)
JoinRoomReplay(s, room) ==
    [s EXCEPT !.rooms = @ \cup {room},
              !.inbox = Append(@, Event(room, "replayed", Null, <<"none", 0>>))]

\* socket.join(room)
JoinRoom(s, room) == [s EXCEPT !.rooms = @ \cup {room}]

\* (mutant: the rooms of a socket outlive it)
LeaveKeepRooms(s) == [s EXCEPT !.status = "disconnected"]

\* the socket closes: it leaves every room
Leave(s) == [s EXCEPT !.status = "disconnected", !.rooms = {}]

NoReq == [route |-> "none"]

\* the locals of a route handler; getError and setError (a cache call of the
\* request failed), dbError (a query of the primary path failed), gone (the
\* disaster searched for had no record when the request arrived) and emitted
\* (the events the handler has handed to req.io, in order) are history
NoLoc == [disaster |-> Null, response |-> Null, getError |-> FALSE,
          setError |-> FALSE, dbError |-> FALSE, gone |-> FALSE,
          emitted |-> << >>]

\* the frame of cleanExpiredCache; last is history, how the previous run
\* ended: "none", "error", "swept", or "swept_eq" when a row whose expiry was
\* the cutoff itself was in the table
NoSweep == [pc |-> "idle", cutoff |-> 0, last |-> "none"]

\* no calculateDistance call is looked at: a and b are the two points, ab
\* and ba what calculateDistance returned for (a, b) and for (b, a)
NoGeo == [a |-> Null, b |-> Null, ab |-> Null, ba |-> Null]

\* what an awaited call gives its caller when it throws
Thrown == [thrown |-> TRUE]

InternalServerError == [status |-> 500, body |-> [error |-> "Internal server error"]]

\* (mutant: getCachedData gives null whatever it read)
GetResultNone(ok, data) == Null

\* what getCachedData(key) resolves to once the select has answered and the
\* row is not expired: null on an error of the select (PGRST116 or any other,
\* or a throw caught by its try/catch), data.value otherwise
GetResult(ok, data) ==
    IF ~ok \/ data = Null THEN Null ELSE data.value

\* (mutant: the error of the upsert is thrown on to the caller)
SetThrows(ok) == IF ok THEN Undefined ELSE Thrown

\* what setCachedData resolves to: undefined, the error of the upsert being
\* logged only
SetResult(ok) == Undefined

\* the continuation of `await getCachedData(cacheKey)` with the value v it
\* resolved to: a bare call is over; the resource search answers a hit
\* (`if (cachedData)`), goes on to the disaster lookup on null, and answers
\* 500 from its catch block were the call to throw
PcAfterGet(p, v) ==
    IF req[p].route = "search" /\ v = Null THEN "lookup"
    ELSE IF req[p].route \in {"social", "updates"} /\ v = Null THEN "feed_lookup"
    ELSE "done"

ResAfterGet(p, v) ==
    IF req[p].route \in {"search", "social", "updates"}
    THEN IF v = Null THEN res[p]
         ELSE IF v = Thrown THEN InternalServerError
         ELSE [status |-> 200, body |-> v]
    ELSE v

\* the continuation of `await setCachedData(...)` with what it resolved to:
\* the resource search, the social-media route and the official-updates
\* route answer res.json(response)
ResAfterSet(p, v) ==
    IF req[p].route \in {"search", "social", "updates"}
    THEN IF v = Thrown THEN InternalServerError
         ELSE [status |-> 200, body |-> hloc[p].response]
    ELSE v

\* what that continuation emits before it answers: the social-media route
\* emits its response to the room of the disaster, the others nothing
EventsAfterSet(p, v) ==
    IF req[p].route = "social" /\ v # Thrown
    THEN << Event(Room(req[p].disasterId), "social_media_updated",
                  hloc[p].response, Rid(p)) >>
    ELSE << >>

\* getCachedData(key), up to its second await: the select, and what the code
\* does with its answer
GetSelect(p) ==
    /\ pc[p] = "get_select"
    /\ \E ok \in BOOLEAN :
        LET key == call[p].key
            data == IF ok THEN Single(RowsOf(key)) ELSE Null
            frame == [call[p] EXCEPT !.data = data, !.error = ~ok,
                                     !.at = now, !.seen = Seen(key)]
        IN  /\ call' = [call EXCEPT ![p] = frame]
            /\ hloc' = IF req[p].route = "none" THEN hloc
                       ELSE [hloc EXCEPT ![p].getError = ~ok]
            /\ IF data # Null /\ IsExpired(data.expires_at, now)
               THEN pc' = [pc EXCEPT ![p] = "get_delete"] /\ UNCHANGED res
               ELSE /\ pc' = [pc EXCEPT ![p] = PcAfterGet(p, GetResult(ok, data))]
                    /\ res' = [res EXCEPT ![p] = ResAfterGet(p, GetResult(ok, data))]
    /\ UNCHANGED <<geo, sockets, served, now, cache, disasters, resources, nextUuid, req, lastMut, sweep>>

\* getCachedData(key), from the delete of the expired entry to `return null`;
\* the outcome of the delete is not looked at
GetDelete(p) ==
    /\ pc[p] = "get_delete"
    /\ \E ok \in BOOLEAN :
        LET key == call[p].key
        IN  /\ cache' = IF ok THEN DeleteKey(cache, key) ELSE cache
            /\ lastMut' = IF ok /\ RowsOf(key) # {}
                          THEN Record(key, [kind |-> "delete"])
                          ELSE lastMut
            /\ call' = [call EXCEPT ![p].deleteError = ~ok]
            /\ hloc' = IF req[p].route = "none" THEN hloc
                       ELSE [hloc EXCEPT ![p].getError = ~ok]
    /\ pc' = [pc EXCEPT ![p] = PcAfterGet(p, Null)]
    /\ res' = [res EXCEPT ![p] = ResAfterGet(p, Null)]
    /\ UNCHANGED <<geo, sockets, served, now, disasters, resources, nextUuid, req, sweep>>

\* the frame setCachedData(key, value, ttlSeconds) builds before its await
SetFrame(key, value, ttlSeconds) ==
    [NoCall EXCEPT !.fn = "set", !.key = key, !.value = value,
                   !.ttl = ttlSeconds, !.t0 = now,
                   !.expiresAt = ExpiresAt(now, ttlSeconds)]

\* setCachedData, from the upsert to its return
SetUpsert(p) ==
    /\ pc[p] = "set_upsert"
    /\ \E ok \in BOOLEAN :
        LET f == call[p]
        IN  /\ cache' = IF ok THEN Upsert(cache, f.key, f.value, f.expiresAt)
                              ELSE cache
            /\ lastMut' = IF ok
                          THEN Record(f.key, [kind |-> "set", value |-> f.value,
                                              ttl |-> f.ttl, t0 |-> f.t0])
                          ELSE lastMut
            /\ call' = [call EXCEPT ![p].error = ~ok,
                                    ![p].over = RowsOf(f.key) # {}]
            /\ hloc' = IF req[p].route = "none" THEN hloc
                       ELSE [hloc EXCEPT ![p].setError = ~ok,
                                         ![p].emitted =
                                             EventsAfterSet(p, SetResult(ok))]
            /\ sockets' = EmitAll(sockets, EventsAfterSet(p, SetResult(ok)))
            /\ res' = [res EXCEPT ![p] = ResAfterSet(p, SetResult(ok))]
    /\ pc' = [pc EXCEPT ![p] = "done"]
    /\ UNCHANGED <<geo, served, now, disasters, resources, nextUuid, req, sweep>>

\* a caller outside the routes calls getCachedData(key)
GetCall(p) ==
    /\ pc[p] = "idle"
    /\ \E key \in Keys :
        call' = [call EXCEPT ![p] = [NoCall EXCEPT !.fn = "get", !.key = key]]
    /\ pc' = [pc EXCEPT ![p] = "get_select"]
    /\ UNCHANGED <<geo, sockets, served, now, cache, disasters, resources, nextUuid, req, hloc, res,
                   lastMut, sweep>>

\* a caller outside the routes calls setCachedData(key, value, ttlSeconds)
SetCall(p) ==
    /\ pc[p] = "idle"
    /\ \E key \in Keys, value \in Values, ttlSeconds \in Ttls :
        call' = [call EXCEPT ![p] = SetFrame(key, value, ttlSeconds)]
    /\ pc' = [pc EXCEPT ![p] = "set_upsert"]
    /\ UNCHANGED <<geo, sockets, served, now, cache, disasters, resources, nextUuid, req, hloc, res,
                   lastMut, sweep>>

\* the caller has taken the result; the request slot is free again
Finish(p) ==
    /\ pc[p] = "done"
    /\ pc' = [pc EXCEPT ![p] = "idle"]
    /\ call' = [call EXCEPT ![p] = NoCall]
    /\ req' = [req EXCEPT ![p] = NoReq]
    /\ hloc' = [hloc EXCEPT ![p] = NoLoc]
    /\ res' = [res EXCEPT ![p] = Null]
    /\ UNCHANGED <<geo, sockets, served, now, cache, disasters, resources, nextUuid, lastMut, sweep>>

\* cleanExpiredCache(), as the interval timer fires: the cutoff is taken
\* before the await
SweepCall ==
    /\ sweep.pc = "idle"
    /\ sweep' = [pc |-> "delete", cutoff |-> now, last |-> "none"]
    /\ UNCHANGED <<geo, sockets, served, now, cache, disasters, resources, nextUuid, pc, call, req,
                   hloc, res, lastMut>>

\* cleanExpiredCache(), the delete and its outcome
SweepDelete ==
    /\ sweep.pc = "delete"
    /\ \E ok \in BOOLEAN :
        /\ cache' = IF ok THEN DeleteExpired(cache, sweep.cutoff) ELSE cache
        /\ sweep' = [pc |-> "idle", cutoff |-> 0,
                     last |-> IF ~ok THEN "error"
                              ELSE IF \E r \in cache : r.expires_at = sweep.cutoff
                                   THEN "swept_eq" ELSE "swept"]
    /\ lastMut' = [k \in DOMAIN lastMut |->
                     IF RowsOf(k) # {} /\ {r \in cache' : r.key = k} = {}
                     THEN [kind |-> "delete"] ELSE lastMut[k]]
    /\ UNCHANGED <<geo, sockets, served, now, disasters, resources, nextUuid, pc, call, req, hloc, res>>

\* the clock of the bare cache calls advances by a second
Tick ==
    /\ now + MsPerSecond <= MaxNow
    /\ now' = now + MsPerSecond
    /\ UNCHANGED <<geo, sockets, served, cache, disasters, resources, nextUuid, pc, call, req, hloc,
                   res, lastMut, sweep>>

----------------------------------------------------------------------------
(* The cache on its own: callers of getCachedData and setCachedData, the   *)
(* periodic sweep and the clock                                            *)

Init ==
    /\ now = 0
    /\ cache = {}
    /\ disasters = {}
    /\ resources = {}
    /\ nextUuid = 0
    /\ pc = [p \in Procs |-> "idle"]
    /\ call = [p \in Procs |-> NoCall]
    /\ req = [p \in Procs |-> NoReq]
    /\ hloc = [p \in Procs |-> NoLoc]
    /\ res = [p \in Procs |-> Null]
    /\ lastMut = [k \in Keys |-> NoMut]
    /\ sweep = NoSweep
    /\ served = [p \in Procs |-> 0]
    /\ sockets = [c \in Conns |-> NoSocket]
    /\ geo = NoGeo

Next ==
    \/ \E p \in Callers : GetCall(p)
    \/ \E p \in Callers : GetSelect(p)
    \/ \E p \in Callers : GetDelete(p)
    \/ \E p \in Callers : SetCall(p)
    \/ \E p \in Callers : SetUpsert(p)
    \/ \E p \in Callers : Finish(p)
    \/ SweepCall
    \/ SweepDelete
    \/ Tick

Spec == Init /\ [][Next]_vars

----------------------------------------------------------------------------
(* Properties of the cache *)

\* a bare getCachedData / setCachedData call of p has returned
GetDone(p) == pc[p] = "done" /\ req[p].route = "none" /\ call[p].fn = "get"
SetDone(p) == pc[p] = "done" /\ req[p].route = "none" /\ call[p].fn = "set"

\* the expiry the last write of a key asked for: the time of the call plus
\* ttlSeconds
AskedExpiry(m) == m.t0 + m.ttl * 1000

\* C1 as the specification words it: get returns the stored value if and
\* only if an entry exists and its expiry is strictly greater than the
\* current time; an entry whose expiry equals the current time is absent.
C1_GetOnlyStrictlyFuture ==
    \A p \in Procs :
        GetDone(p) /\ ~call[p].error =>
            LET m == call[p].seen
            IN  (res[p] # Null) <=>
                    (m.kind = "set" /\ AskedExpiry(m) > call[p].at)

\* C1, amended: get returns the stored value if and only if the select
\* answers, an entry exists and its expiry is greater than OR EQUAL TO the
\* current time; it never returns the value of an entry whose expiry is
\* strictly in the past, and what it returns is the value last set.
C1_GetIffNotPast ==
    \A p \in Procs :
        GetDone(p) =>
            LET m == call[p].seen
            IN  /\ (res[p] # Null) <=>
                       /\ ~call[p].error
                       /\ m.kind = "set"
                       /\ AskedExpiry(m) >= call[p].at
                /\ res[p] # Null => res[p] = m.value

\* the boundary of C1: get has returned the value of an entry read in the
\* very millisecond of its expiry
C1_Witness ==
    \E p \in Procs :
        /\ GetDone(p) /\ ~call[p].error
        /\ call[p].seen.kind = "set"
        /\ AskedExpiry(call[p].seen) = call[p].at
        /\ res[p] = call[p].seen.value

\* C2: set(K, V, ttl) with ttl > 0 that the storage took, followed by get(K)
\* before the ttl has run out, with no other write of K in between and the
\* select answering, returns V.
C2_SetThenGet ==
    \A p \in Procs :
        ( /\ GetDone(p) /\ ~call[p].error
          /\ call[p].seen.kind = "set"
          /\ call[p].seen.ttl > 0
          /\ call[p].at < AskedExpiry(call[p].seen) )
        => res[p] = call[p].seen.value

\* a get that follows a set with ttl > 0 which replaced an earlier value of
\* the key has returned the new value
C2_Witness ==
    \E p \in Procs :
        /\ GetDone(p) /\ ~call[p].error
        /\ call[p].seen.kind = "set" /\ call[p].seen.ttl > 0
        /\ call[p].at < AskedExpiry(call[p].seen)
        /\ call[p].seen.t0 > 0
        /\ res[p] = [v |-> "b"]

\* C3 as the specification words it: for an entry written with ttl <= 0, or
\* read after its expiry, get returns absent and leaves no entry of the key.
C3_NonPositiveTtlAbsent ==
    \A p \in Procs :
        ( /\ GetDone(p) /\ ~call[p].error /\ ~call[p].deleteError
          /\ call[p].seen.kind = "set"
          /\ \/ call[p].seen.ttl <= 0
             \/ call[p].at > AskedExpiry(call[p].seen) )
        => res[p] = Null /\ RowsOf(call[p].key) = {}

\* C3, amended: for an entry read strictly after its expiry (always so for
\* ttl < 0, and for ttl = 0 once the clock has moved on), get returns absent
\* and, the delete succeeding, no entry of the key remains.  (A caller
\* writes K only by a later call, so the table is looked at while the get is
\* the caller's last call.)
C3_PastExpiryAbsent ==
    \A p \in Procs :
        ( /\ GetDone(p) /\ ~call[p].error
          /\ call[p].seen.kind = "set"
          /\ call[p].at > AskedExpiry(call[p].seen) )
        => /\ res[p] = Null
           /\ ~call[p].deleteError => RowsOf(call[p].key) = {}

\* get has evicted an entry written with ttl = 0 and read later
C3_Witness ==
    \E p \in Procs :
        /\ GetDone(p) /\ ~call[p].error /\ ~call[p].deleteError
        /\ call[p].seen.kind = "set" /\ call[p].seen.ttl = 0
        /\ call[p].at > AskedExpiry(call[p].seen)
        /\ res[p] = Null /\ RowsOf(call[p].key) = {}

\* C4: the table holds at most one entry per key, and what it holds for a
\* key is what the last set of that key (that the storage took) asked for:
\* the given value, expiring at the time of the call plus ttlSeconds.  A set
\* therefore replaces the entry of its key and leaves the other keys alone.
C4_SetUpserts ==
    \A k \in DOMAIN lastMut :
        /\ Cardinality(RowsOf(k)) <= 1
        /\ lastMut[k].kind = "set" =>
               RowsOf(k) = {[key |-> k, value |-> lastMut[k].value,
                             expires_at |-> AskedExpiry(lastMut[k])]}
        /\ lastMut[k].kind # "set" => RowsOf(k) = {}

\* a set has replaced an entry of its key while another key had an entry
C4_Witness ==
    \E p \in Procs :
        /\ SetDone(p) /\ ~call[p].error /\ call[p].over
        /\ \E r \in cache : r.key # call[p].key
        /\ \E r \in cache : r.key = call[p].key /\ r.value = call[p].value

\* a successful run of the sweep's delete
SweepDeleted ==
    sweep.pc = "delete" /\ sweep'.pc = "idle" /\ sweep'.last # "error"

\* C5 as the specification words it: sweep removes every entry whose expiry
\* is less than or equal to the current time and no other.
C5_SweepRemovesUpToNow ==
    [][SweepDeleted =>
          cache' = {r \in cache : ~(r.expires_at <= sweep.cutoff)}]_vars

\* C5, amended: sweep removes every entry whose expiry is strictly less than
\* the time of the call and no other: an entry expiring at that very time
\* stays, as does every entry expiring later.
C5_SweepRemovesPast ==
    [][SweepDeleted =>
          \A r \in cache : (r \in cache') <=> (r.expires_at >= sweep.cutoff)]_vars

\* a sweep has run over a table holding an entry that expired at the cutoff,
\* and the entry is still there
C5_Witness ==
    /\ sweep.pc = "idle" /\ sweep.last = "swept_eq"
    /\ cache # {}

----------------------------------------------------------------------------
(* routes/resources.js: distances                                          *)
(*                                                                         *)
(* Coordinates are integers, in units of 0.0001 degree; distances are in   *)
(* metres (the code's kilometres, times 1000).  The trigonometry is in     *)
(* fixed point: angles in microradians, cosines in 1/10000.  It is within  *)
(* 0.5 % of the floating-point value (and 13 m) for points up to five      *)
(* degrees apart, which is the range the model draws from.                 *)

\* division rounding towards zero, as sign-symmetric as IEEE arithmetic is
TDiv(a, b) == IF a >= 0 THEN a \div b ELSE -((-a) \div b)

RECURSIVE SqrtIter(_, _, _)
SqrtIter(n, lo, hi) ==
    IF lo >= hi THEN lo
    ELSE LET mid == (lo + hi + 1) \div 2
         IN  IF mid * mid <= n THEN SqrtIter(n, mid, hi)
             ELSE SqrtIter(n, lo, mid - 1)

\* Math.sqrt, rounded down
Sqrt(n) == SqrtIter(n, 0, 46340)

\* (d * Math.PI / 180) / 2 for d in 0.0001 degree: microradians
HalfAngle(d) == TDiv(d * 17453, 20000)

\* Math.sin of a small angle in microradians, in millionths
Sin(x) == x - TDiv(TDiv(x * x, 1000000) * x, 6000000)

\* Math.cos(lat * Math.PI / 180) for lat in 0.0001 degree, in 1/10000
Cos(lat) ==
    LET y == TDiv(TDiv(lat, 100) * 17453, 10000)
        y2 == (y * y) \div 10000
    IN  10000 - (y2 \div 2) + ((y2 * y2) \div 240000)
              - ((((y2 * y2) \div 10000) * y2) \div 7200000)
              + (((((((y2 * y2) \div 10000) * y2) \div 100000) * y2) \div 1000)
                     \div 40320)

\* Math.atan2(Math.sqrt(a), Math.sqrt(1-a)), the arcsine of sqrt(a), for
\* h = sqrt(a) in millionths: microradians
Atan2(h) == h + TDiv(TDiv(h * h, 1000000) * h, 6000000)

EarthRadiusKm == 6371

\* (mutant: the cosine of the first latitude taken for both points)
calculateDistanceOneCos(lat1, lng1, lat2, lng2) ==
    LET sLat == Sin(HalfAngle(lat2 - lat1))
        sLng == Sin(HalfAngle(lng2 - lng1))
        a == sLat * sLat
               + TDiv(sLng * ((Cos(lat1) * Cos(lat1)) \div 10000), 10000) * sLng
        c == 2 * Atan2(Sqrt(a))
    IN  (EarthRadiusKm * c) \div 1000

\* calculateDistance(lat1, lng1, lat2, lng2): the haversine distance
calculateDistance(lat1, lng1, lat2, lng2) ==
    LET sLat == Sin(HalfAngle(lat2 - lat1))
        sLng == Sin(HalfAngle(lng2 - lng1))
        a == sLat * sLat
               + TDiv(sLng * ((Cos(lat1) * Cos(lat2)) \div 10000), 10000) * sLng
        c == 2 * Atan2(Sqrt(a))
    IN  (EarthRadiusKm * c) \div 1000

----------------------------------------------------------------------------
(* calculateDistance called on pairs of points                             *)

\* the points: the default centre, points 5.5 km north, 2.1 km east and two
\* degrees east of it, and points up to 4.3 degrees north of it
Lats == {407128, 407628, 410000, 450000}
Lngs == {-740060, -739810, -720060}
Points == [lat : Lats, lng : Lngs]

InitDistance ==
    /\ now = 0
    /\ cache = {}
    /\ disasters = {}
    /\ resources = {}
    /\ nextUuid = 0
    /\ pc = [p \in Procs |-> "idle"]
    /\ call = [p \in Procs |-> NoCall]
    /\ req = [p \in Procs |-> NoReq]
    /\ hloc = [p \in Procs |-> NoLoc]
    /\ res = [p \in Procs |-> Null]
    /\ lastMut = << >>
    /\ sweep = NoSweep
    /\ served = [p \in Procs |-> 0]
    /\ sockets = [c \in Conns |-> NoSocket]
    /\ \E a \in Points, b \in Points : geo = [NoGeo EXCEPT !.a = a, !.b = b]

\* calculateDistance(a.lat, a.lng, b.lat, b.lng)
DistanceAB ==
    /\ geo.ab = Null
    /\ geo' = [geo EXCEPT !.ab = Num(calculateDistance(geo.a.lat, geo.a.lng,
                                                       geo.b.lat, geo.b.lng))]
    /\ UNCHANGED <<now, cache, disasters, resources, nextUuid, pc, call, req,
                   hloc, res, lastMut, sweep, served, sockets>>

\* calculateDistance(b.lat, b.lng, a.lat, a.lng)
DistanceBA ==
    /\ geo.ba = Null
    /\ geo' = [geo EXCEPT !.ba = Num(calculateDistance(geo.b.lat, geo.b.lng,
                                                       geo.a.lat, geo.a.lng))]
    /\ UNCHANGED <<now, cache, disasters, resources, nextUuid, pc, call, req,
                   hloc, res, lastMut, sweep, served, sockets>>

NextDistance == DistanceAB \/ DistanceBA

SpecDistance == InitDistance /\ [][NextDistance]_vars

\* C22: calculateDistance gives the same distance for (a, b) and (b, a),
\* and 0 for two equal points.
C22_SymmetricAndZero ==
    /\ (geo.ab # Null /\ geo.ba # Null) => geo.ab = geo.ba
    /\ (geo.ab # Null /\ geo.a = geo.b) => geo.ab = Num(0)

\* C22 (witness): both distances of two points of different latitude and
\* longitude have been computed, and they are not 0
C22_Witness ==
    /\ geo.ab # Null /\ geo.ba # Null
    /\ geo.a.lat # geo.b.lat /\ geo.a.lng # geo.b.lng
    /\ geo.ab.num > 0

----------------------------------------------------------------------------
(* routes/resources.js: GET /:disasterId                                   *)

\* a string parameter
Str(x) == [str |-> x]

DefaultRadius == 10000
SearchTtl == 1800
DefaultLat == 407128
DefaultLng == -740060

\* the requests that search, and those that mutate
Searchers == {"p1"}
Mutators == {"p2"}

Search(disasterId, lat, lng, radius, type) ==
    [route |-> "search", disasterId |-> disasterId, lat |-> lat, lng |-> lng,
     radius |-> radius, type |-> type]

\* the searches made: query-string parameters are Undefined when absent; d1
\* has a record at the start, d2 never has
Requests ==
    { Search("d1", Undefined, Undefined, Undefined, Undefined),
      Search("d1", Num(407128), Num(-740060), Num(1000), Undefined),
      Search("d1", Num(407128), Undefined, Undefined, Str("shelter")),
      Search("d1", Num(407128), Num(-740060), Undefined, Str("shelter")),
      Search("d2", Undefined, Undefined, Undefined, Undefined) }

\* const { lat, lng, radius = 10000, type } = req.query; parseInt(radius)
Radius(r) == IF r.radius = Undefined THEN DefaultRadius ELSE r.radius.num

\* lat && lng
HasCenter(r) == Truthy(r.lat) /\ Truthy(r.lng)

\* `resources_${disasterId}_${lat}_${lng}_${radius}_${type}`
CacheKey(r) == <<"resources", r.disasterId, r.lat, r.lng, Radius(r), r.type>>

NotFound == [status |-> 404, body |-> [error |-> "Disaster not found"]]
FetchDisasterFailed == [status |-> 500, body |-> [error |-> "Failed to fetch disaster"]]
\* (mutant: a failed query answered as an empty search)
FetchResourcesEmpty ==
    [status |-> 200, body |-> [total_resources |-> 0, resources |-> {}]]

FetchResourcesFailed == [status |-> 500, body |-> [error |-> "Failed to fetch resources"]]

\* (mutant: the type filter is not applied)
ScopedRowsAnyType(rows, r) == {x \in rows : x.disaster_id = r.disasterId}

\* .from('resources').select('*').eq('disaster_id', id) [.eq('type', type)]
ScopedRows(rows, r) ==
    {x \in rows : /\ x.disaster_id = r.disasterId
                  /\ Truthy(r.type) => x.type = r.type.str}

\* rpc get_resources_within_distance(disaster_id, center_lat, center_lng,
\* radius_meters) on the scoped query: the rows within the radius
WithinDistance(rows, r) ==
    {x \in ScopedRows(rows, r) :
        /\ x.location # Null
        /\ calculateDistance(r.lat.num, r.lng.num, x.location.lat, x.location.lng)
              <= Radius(r)}

\* what `await query` gives
QueryRows(rows, r) ==
    IF HasCenter(r) THEN WithinDistance(rows, r) ELSE ScopedRows(rows, r)

\* baseResources
BaseResources ==
    << [type |-> "shelter", capacity |-> 200],
       [type |-> "medical", capacity |-> 150],
       [type |-> "food", capacity |-> 500],
       [type |-> "supplies", capacity |-> 300],
       [type |-> "housing", capacity |-> 100] >>

\* the ten values Math.random() gives one call of generateMockResources,
\* in thousandths
RandomStreams ==
    { [i \in 1..10 |-> 500],
      [i \in 1..10 |-> IF i % 2 = 1 THEN 0 ELSE 750] }

\* (Math.random() - 0.5) * 0.1 degrees, in 0.0001 degree
Offset(random) == random - 500

\* (mutant: a catalog cut down to the category asked for)
generateMockResourcesOfType(r, stream, uuid0, t) ==
    { [id |-> [uuid |-> uuid0 + i],
       disaster_id |-> r.disasterId,
       type |-> BaseResources[i].type,
       capacity |-> BaseResources[i].capacity,
       latitude |-> DefaultLat,
       longitude |-> DefaultLng,
       distance_km |-> Null,
       created_at |-> t]
      : i \in {j \in 1..Len(BaseResources) :
                  Truthy(r.type) => BaseResources[j].type = r.type.str} }

\* generateMockResources(disasterId, centerLat, centerLng), drawing the
\* uuids after uuid0 and the random numbers of stream, at time t
generateMockResources(r, stream, uuid0, t) ==
    { LET lat == (IF HasCenter(r) THEN r.lat.num ELSE DefaultLat)
                    + Offset(stream[2 * i - 1])
          lng == (IF HasCenter(r) THEN r.lng.num ELSE DefaultLng)
                    + Offset(stream[2 * i])
      IN  [id |-> [uuid |-> uuid0 + i],
           disaster_id |-> r.disasterId,
           type |-> BaseResources[i].type,
           capacity |-> BaseResources[i].capacity,
           latitude |-> lat,
           longitude |-> lng,
           distance_km |-> IF HasCenter(r)
                           THEN Num(calculateDistance(r.lat.num, r.lng.num, lat, lng))
                           ELSE Null,
           created_at |-> t]
      : i \in 1..Len(BaseResources) }

\* (mutant: search_center echoes lat and lng whether or not both are there)
ResponseEchoCenter(r, disaster, list, t) ==
    [disaster_id |-> r.disasterId,
     disaster_title |-> disaster.title,
     search_center |-> [lat |-> r.lat, lng |-> r.lng],
     search_radius_km |-> Radius(r) \div 1000,
     total_resources |-> Cardinality(list),
     resources |-> list,
     last_updated |-> t]

\* the response object
Response(r, disaster, list, t) ==
    [disaster_id |-> r.disasterId,
     disaster_title |-> disaster.title,
     search_center |-> IF HasCenter(r)
                       THEN [lat |-> r.lat.num, lng |-> r.lng.num] ELSE Null,
     search_radius_km |-> Radius(r) \div 1000,
     total_resources |-> Cardinality(list),
     resources |-> list,
     last_updated |-> t]

\* GET /:disasterId, from the arrival of the request to the first await:
\* the cache key is built and getCachedData called
SearchStart(p) ==
    /\ pc[p] = "idle"
    /\ Arrived < MaxRequests
    /\ served' = [served EXCEPT ![p] = served[p] + 1]
    /\ \E r \in Requests :
        /\ req' = [req EXCEPT ![p] = r]
        /\ call' = [call EXCEPT ![p] = [NoCall EXCEPT !.fn = "get",
                                                      !.key = CacheKey(r)]]
        /\ hloc' = [hloc EXCEPT ![p].gone =
                        ~\E d \in disasters : d.id = r.disasterId]
    /\ pc' = [pc EXCEPT ![p] = "get_select"]
    /\ UNCHANGED <<geo, sockets, now, cache, disasters, resources, nextUuid, res,
                   lastMut, sweep>>

\* GET /:disasterId after a miss: the disaster is looked up (.single()), and
\* the query for its resources is built.  With a center the query is handed
\* to query.rpc(...), a call into the client library that either gives the
\* restricted query or throws into the catch block of the handler
SearchLookup(p) ==
    /\ pc[p] = "lookup"
    /\ \E ok \in BOOLEAN, rpc \in BOOLEAN :
        LET found == Single({d \in disasters : d.id = req[p].disasterId})
        IN  IF ~ok
            THEN /\ rpc
                 /\ pc' = [pc EXCEPT ![p] = "done"]
                 /\ res' = [res EXCEPT ![p] = FetchDisasterFailed]
                 /\ hloc' = [hloc EXCEPT ![p].dbError = TRUE]
            ELSE IF found = Null
            THEN /\ rpc
                 /\ pc' = [pc EXCEPT ![p] = "done"]
                 /\ res' = [res EXCEPT ![p] = NotFound]
                 /\ UNCHANGED hloc
            ELSE IF ~rpc
            THEN /\ HasCenter(req[p])
                 /\ pc' = [pc EXCEPT ![p] = "done"]
                 /\ res' = [res EXCEPT ![p] = InternalServerError]
                 /\ hloc' = [hloc EXCEPT ![p].dbError = TRUE]
            ELSE /\ pc' = [pc EXCEPT ![p] = "query"]
                 /\ hloc' = [hloc EXCEPT ![p].disaster =
                                [id |-> found.id, title |-> found.title]]
                 /\ UNCHANGED res
    /\ UNCHANGED <<geo, sockets, served, now, cache, disasters, resources, nextUuid, call, req,
                   lastMut, sweep>>

\* GET /:disasterId once the query has answered: an error is answered 500;
\* otherwise the response is built, from mock resources when no row came
\* back, and setCachedData is called with it for 30 minutes
SearchQuery(p) ==
    /\ pc[p] = "query"
    /\ \E ok \in BOOLEAN, stream \in RandomStreams :
        LET r == req[p]
            rows == QueryRows(resources, r)
            mock == rows = {}
            list == IF mock THEN generateMockResources(r, stream, nextUuid, now)
                    ELSE rows
            response == Response(r, hloc[p].disaster, list, now)
        IN  IF ~ok
            THEN /\ pc' = [pc EXCEPT ![p] = "done"]
                 /\ res' = [res EXCEPT ![p] = FetchResourcesFailed]
                 /\ hloc' = [hloc EXCEPT ![p].dbError = TRUE]
                 /\ UNCHANGED <<call, nextUuid>>
            ELSE /\ mock => nextUuid + Len(BaseResources) <= MaxUuid
                 /\ ~mock => stream = [i \in 1..10 |-> 500]
                 /\ nextUuid' = IF mock THEN nextUuid + Len(BaseResources)
                                ELSE nextUuid
                 /\ hloc' = [hloc EXCEPT ![p].response = response]
                 /\ call' = [call EXCEPT ![p] =
                                SetFrame(CacheKey(r), response, SearchTtl)]
                 /\ pc' = [pc EXCEPT ![p] = "set_upsert"]
                 /\ UNCHANGED res
    /\ UNCHANGED <<geo, sockets, served, now, cache, disasters, resources, req, lastMut, sweep>>

----------------------------------------------------------------------------
(* routes/resources.js: POST /                                             *)

\* a number of a JSON body is falsy when it is 0
TruthyNumber(x) == Truthy(x) /\ x.num # 0

Body(disaster_id, name, type, lat, lng, capacity) ==
    [route |-> "create", disaster_id |-> disaster_id, name |-> name,
     type |-> type, lat |-> lat, lng |-> lng, capacity |-> capacity]

\* the bodies posted: a shelter at the search centre, a resource some
\* 5.5 km north of it whose type is a word of the client's own and whose
\* capacity is negative, and a body without type
Bodies ==
    { Body(Str("d1"), Str("A"), Str("shelter"), Num(407128), Num(-740060), Undefined),
      Body(Str("d1"), Str("B"), Str("bunker"), Num(407628), Num(-740060), Num(-50)),
      Body(Str("d1"), Str("D"), Undefined, Undefined, Undefined, Undefined) }

BadRequest == [status |-> 400,
               body |-> [error |-> "disaster_id, name, and type are required"]]
CreateFailed == [status |-> 500, body |-> [error |-> "Failed to create resource"]]

\* a text column as the insert stores it: an absent field is left null
Text(x) == IF x = Undefined THEN Null ELSE x.str

\* the row POST / builds: capacity = 0 when absent, location when lat && lng
NewResource(b, uuid) ==
    [id |-> [uuid |-> uuid],
     disaster_id |-> Text(b.disaster_id),
     name |-> Text(b.name),
     type |-> Text(b.type),
     capacity |-> IF b.capacity = Undefined THEN 0 ELSE b.capacity.num,
     location |-> IF TruthyNumber(b.lat) /\ TruthyNumber(b.lng)
                  THEN [lat |-> b.lat.num, lng |-> b.lng.num] ELSE Null]

\* (mutant: a body without type passes the validation)
MissingIdOrName(b) == ~Truthy(b.disaster_id) \/ ~Truthy(b.name)

\* !disaster_id || !name || !type
MissingRequired(b) ==
    ~Truthy(b.disaster_id) \/ ~Truthy(b.name) \/ ~Truthy(b.type)

\* (mutant: the event is emitted whatever the insert answered)
ResourceEventsAlways(p, row, inserted) ==
    << Event(Room(row.disaster_id), "resources_updated", row, Rid(p)) >>

\* what POST / emits once the insert has answered: the row to the room of
\* its disaster, or nothing when the insert failed
ResourceEvents(p, row, inserted) ==
    IF inserted
    THEN << Event(Room(row.disaster_id), "resources_updated", row, Rid(p)) >>
    ELSE << >>

\* POST /, from the arrival of the request to the await of the insert
CreateStart(p) ==
    /\ pc[p] = "idle"
    /\ Arrived < MaxRequests
    /\ served' = [served EXCEPT ![p] = served[p] + 1]
    /\ \E b \in Bodies :
        /\ req' = [req EXCEPT ![p] = b]
        /\ IF MissingRequired(b)
           THEN /\ pc' = [pc EXCEPT ![p] = "done"]
                /\ res' = [res EXCEPT ![p] = BadRequest]
                /\ UNCHANGED <<hloc, nextUuid>>
           ELSE /\ nextUuid + 1 <= MaxUuid
                /\ Cardinality(resources) < MaxResources
                /\ nextUuid' = nextUuid + 1
                /\ hloc' = [hloc EXCEPT ![p].response = NewResource(b, nextUuid + 1)]
                /\ pc' = [pc EXCEPT ![p] = "insert"]
                /\ UNCHANGED res
    /\ UNCHANGED <<geo, sockets, now, cache, disasters, resources, call, lastMut, sweep>>

\* the insert: refused by the foreign key when the disaster is not there
InsertResource(rows, row) ==
    IF \E d \in disasters : d.id = row.disaster_id THEN rows \cup {row} ELSE rows

\* POST /, from the answer of the insert to the response
CreateInsert(p) ==
    /\ pc[p] = "insert"
    /\ \E ok \in BOOLEAN :
        LET row == hloc[p].response
            after == IF ok THEN InsertResource(resources, row) ELSE resources
            events == ResourceEvents(p, row, row \in after)
        IN  /\ resources' = after
            /\ sockets' = EmitAll(sockets, events)
            /\ IF row \in after
               THEN /\ res' = [res EXCEPT ![p] = [status |-> 201,
                                                  body |-> [resource |-> row]]]
                    /\ hloc' = [hloc EXCEPT ![p].emitted = events]
               ELSE /\ res' = [res EXCEPT ![p] = CreateFailed]
                    /\ hloc' = [hloc EXCEPT ![p].dbError = TRUE,
                                            ![p].emitted = events]
    /\ pc' = [pc EXCEPT ![p] = "done"]
    /\ UNCHANGED <<geo, served, now, cache, disasters, nextUuid, call, req, lastMut, sweep>>

----------------------------------------------------------------------------
(* routes/disasters.js: DELETE /:id                                        *)

\* req.user of the authenticated requests: the owner of d1
Users == { [id |-> "netrunnerX", role |-> "contributor"] }

\* the disasters whose deletion is asked for
Doomed == {"d1"}

Forbidden == [status |-> 403,
              body |-> [error |-> "Not authorized to delete this disaster"]]
DeleteFailed == [status |-> 500, body |-> [error |-> "Failed to delete disaster"]]
Deleted == [status |-> 200, body |-> [message |-> "Disaster deleted successfully"]]

\* DELETE /:id, to the await of the lookup
DeleteStart(p) ==
    /\ pc[p] = "idle"
    /\ Arrived < MaxRequests
    /\ served' = [served EXCEPT ![p] = served[p] + 1]
    /\ \E id \in Doomed, user \in Users :
        req' = [req EXCEPT ![p] = [route |-> "delete", id |-> id, user |-> user]]
    /\ pc' = [pc EXCEPT ![p] = "delete_lookup"]
    /\ UNCHANGED <<geo, sockets, now, cache, disasters, resources, nextUuid, call, hloc, res,
                   lastMut, sweep>>

\* DELETE /:id, from the answer of the lookup to the await of the delete
DeleteLookup(p) ==
    /\ pc[p] = "delete_lookup"
    /\ \E ok \in BOOLEAN :
        LET found == Single({d \in disasters : d.id = req[p].id})
        IN  IF ~ok
            THEN /\ pc' = [pc EXCEPT ![p] = "done"]
                 /\ res' = [res EXCEPT ![p] = FetchDisasterFailed]
                 /\ hloc' = [hloc EXCEPT ![p].dbError = TRUE]
            ELSE IF found = Null
            THEN /\ pc' = [pc EXCEPT ![p] = "done"]
                 /\ res' = [res EXCEPT ![p] = NotFound]
                 /\ UNCHANGED hloc
            ELSE IF found.owner_id # req[p].user.id /\ req[p].user.role # "admin"
            THEN /\ pc' = [pc EXCEPT ![p] = "done"]
                 /\ res' = [res EXCEPT ![p] = Forbidden]
                 /\ UNCHANGED hloc
            ELSE /\ pc' = [pc EXCEPT ![p] = "delete_delete"]
                 /\ hloc' = [hloc EXCEPT ![p].disaster =
                                [owner_id |-> found.owner_id,
                                 title |-> found.title]]
                 /\ UNCHANGED res
    /\ UNCHANGED <<geo, sockets, served, now, cache, disasters, resources, nextUuid, call, req,
                   lastMut, sweep>>

\* .from('disasters').delete().eq('id', id)
DeleteDisaster(rows, id) == {d \in rows : d.id # id}

\* resources.disaster_id REFERENCES disasters(id) ON DELETE CASCADE
Cascade(rows, left) == {x \in rows : \E d \in left : d.id = x.disaster_id}

\* req.io.emit('disaster_deleted', { id })
DeletedEvents(p) ==
    << Event(Global, "disaster_deleted", [id |-> req[p].id], Rid(p)) >>

\* DELETE /:id, from the answer of the delete to the response
DeleteDelete(p) ==
    /\ pc[p] = "delete_delete"
    /\ \E ok \in BOOLEAN :
        IF ok
        THEN /\ disasters' = DeleteDisaster(disasters, req[p].id)
             /\ resources' = Cascade(resources, disasters')
             /\ res' = [res EXCEPT ![p] = Deleted]
             /\ hloc' = [hloc EXCEPT ![p].emitted = DeletedEvents(p)]
             /\ sockets' = EmitAll(sockets, DeletedEvents(p))
        ELSE /\ res' = [res EXCEPT ![p] = DeleteFailed]
             /\ hloc' = [hloc EXCEPT ![p].dbError = TRUE]
             /\ UNCHANGED <<disasters, resources, sockets>>
    /\ pc' = [pc EXCEPT ![p] = "done"]
    /\ UNCHANGED <<geo, served, now, cache, nextUuid, call, req, lastMut, sweep>>

----------------------------------------------------------------------------
(* The resource search: one request searching, one mutating, and the clock *)

\* the clock of the request handlers advances by a second more than the 30
\* minutes the resource search caches for
TickSearch ==
    /\ now + SearchTtl * MsPerSecond + MsPerSecond <= MaxSearchNow
    /\ now' = now + SearchTtl * MsPerSecond + MsPerSecond
    /\ UNCHANGED <<geo, sockets, served, cache, disasters, resources, nextUuid, pc, call, req, hloc,
                   res, lastMut, sweep>>

\* the disaster on record at the start, created by netrunnerX
FirstDisaster ==
    [id |-> "d1", title |-> "Flood", owner_id |-> "netrunnerX",
     audit_trail |-> << [action |-> "create", user_id |-> "netrunnerX",
                         timestamp |-> 0] >>]

InitSearch ==
    /\ now = 0
    /\ cache = {}
    /\ disasters = {FirstDisaster}
    /\ resources = {}
    /\ nextUuid = 0
    /\ pc = [p \in Procs |-> "idle"]
    /\ call = [p \in Procs |-> NoCall]
    /\ req = [p \in Procs |-> NoReq]
    /\ hloc = [p \in Procs |-> NoLoc]
    /\ res = [p \in Procs |-> Null]
    /\ lastMut = << >>
    /\ sweep = NoSweep
    /\ served = [p \in Procs |-> 0]
    /\ sockets = [c \in Conns |-> NoSocket]
    /\ geo = NoGeo

NextSearch ==
    \/ \E p \in Searchers : SearchStart(p)
    \/ \E p \in Searchers : GetSelect(p)
    \/ \E p \in Searchers : GetDelete(p)
    \/ \E p \in Searchers : SearchLookup(p)
    \/ \E p \in Searchers : SearchQuery(p)
    \/ \E p \in Searchers : SetUpsert(p)
    \/ \E p \in Mutators : CreateStart(p)
    \/ \E p \in Mutators : CreateInsert(p)
    \/ \E p \in Mutators : DeleteStart(p)
    \/ \E p \in Mutators : DeleteLookup(p)
    \/ \E p \in Mutators : DeleteDelete(p)
    \/ \E p \in Procs : Finish(p)
    \/ TickSearch

SpecSearch == InitSearch /\ [][NextSearch]_vars

----------------------------------------------------------------------------
(* Properties of the resource search                                       *)

\* the search of p has answered
SearchDone(p) == pc[p] = "done" /\ req[p].route = "search"

\* the search of p has answered 200
SearchOk(p) == SearchDone(p) /\ res[p].status = 200

\* a resource of a response is a synthesized one (it carries latitude and
\* longitude) and not a row of the table (which carries location)
IsMock(x) == "latitude" \in DOMAIN x

\* the categories of the fallback catalog
Categories == {BaseResources[i].type : i \in 1..Len(BaseResources)}

\* the distance in metres from the center of request r to resource x
DistanceFromCenter(r, x) ==
    IF IsMock(x)
    THEN calculateDistance(r.lat.num, r.lng.num, x.latitude, x.longitude)
    ELSE calculateDistance(r.lat.num, r.lng.num, x.location.lat, x.location.lng)

\* C6: a resource search during which a cache operation failed, and no
\* query of the primary path did, is answered as a miss is: a failed get is
\* taken for an absent entry (the answer is the response the handler built
\* itself, or 404 when the disaster has no record), and a failed set still
\* ends in 200 with the response built; the answer is never a 500.
C6_CacheFailuresAbsorbed ==
    \A p \in Searchers :
        (SearchDone(p) /\ (hloc[p].getError \/ hloc[p].setError)
                       /\ ~hloc[p].dbError)
        => /\ res[p].status \in {200, 404}
           /\ res[p].status = 404 => res[p] = NotFound /\ hloc[p].getError
           /\ res[p].status = 200 => /\ hloc[p].response # Null
                                     /\ res[p].body = hloc[p].response
           /\ hloc[p].setError => res[p].status = 200

\* C6 (witness): a search whose cache get and whose cache set both failed
\* has answered 200
C6_Witness ==
    \E p \in Searchers :
        SearchOk(p) /\ hloc[p].getError /\ hloc[p].setError /\ ~hloc[p].dbError

\* C7 (as stated): a search for a disaster that had no record when the
\* request arrived is never answered 200.  The code probes the cache before
\* it looks the disaster up, so this fails after a deletion.
C7_MissingDisasterNotFound ==
    \A p \in Searchers :
        (SearchDone(p) /\ hloc[p].gone) => res[p].status # 200

\* C8: a search answered 200 for a disaster that has a record and no row in
\* resources carries exactly five resources, one of each category of the
\* catalog, each with a generated id, the disaster id asked for and a
\* latitude and longitude; total_resources is 5.
C8_FallbackOfFive ==
    \A p \in Searchers :
        (/\ SearchOk(p)
         /\ \E d \in disasters : d.id = req[p].disasterId
         /\ ~\E x \in resources : x.disaster_id = req[p].disasterId)
        => LET list == res[p].body.resources
           IN  /\ res[p].body.total_resources = 5
               /\ Cardinality(list) = 5
               /\ {x.type : x \in list} = Categories
               /\ Cardinality({x.id : x \in list}) = 5
               /\ \A x \in list :
                    /\ IsMock(x)
                    /\ "uuid" \in DOMAIN x.id
                    /\ x.disaster_id = req[p].disasterId
                    /\ x.latitude \in Int /\ x.longitude \in Int

\* C8 (witness): such a search, made with a center and a category, has been
\* answered
C8_Witness ==
    \E p \in Searchers :
        /\ SearchOk(p)
        /\ HasCenter(req[p]) /\ Truthy(req[p].type)
        /\ \E d \in disasters : d.id = req[p].disasterId
        /\ ~\E x \in resources : x.disaster_id = req[p].disasterId
        /\ res[p].body.total_resources = 5

\* C9 (as stated): every resource of a 200 answer to a search with a center
\* lies within the radius of the center.  The synthesized resources are
\* placed without regard to the radius, so this fails.
C9_WithinRadius ==
    \A p \in Searchers :
        (SearchOk(p) /\ HasCenter(req[p]))
        => \A x \in res[p].body.resources :
              DistanceFromCenter(req[p], x) <= Radius(req[p])

----------------------------------------------------------------------------
(* index.js: io.on('connection'), join_disaster, disconnect                *)

\* the disaster ids a client asks to join
JoinIds == {"d1", "d2"}

\* a client connects
Connect(c) ==
    /\ sockets[c].status = "none"
    /\ sockets' = [sockets EXCEPT ![c].status = "connected"]
    /\ UNCHANGED <<geo, now, cache, disasters, resources, nextUuid, pc, call, req,
                   hloc, res, lastMut, sweep, served>>

\* socket.on('join_disaster', disasterId)
Join(c) ==
    /\ sockets[c].status = "connected"
    /\ \E id \in JoinIds :
        sockets' = [sockets EXCEPT ![c] = JoinRoom(sockets[c], Room(id))]
    /\ UNCHANGED <<geo, now, cache, disasters, resources, nextUuid, pc, call, req,
                   hloc, res, lastMut, sweep, served>>

\* socket.on('disconnect')
Disconnect(c) ==
    /\ sockets[c].status = "connected"
    /\ sockets' = [sockets EXCEPT ![c] = Leave(sockets[c])]
    /\ UNCHANGED <<geo, now, cache, disasters, resources, nextUuid, pc, call, req,
                   hloc, res, lastMut, sweep, served>>

----------------------------------------------------------------------------
(* routes/disasters.js: POST /                                             *)

DisasterBody(title, description, lat, lng) ==
    [title |-> title, description |-> description, lat |-> lat, lng |-> lng]

\* the bodies posted: a disaster with its coordinates (so that no geocoding
\* is asked for), and a body without description
DisasterBodies ==
    { DisasterBody(Str("Fire"), Str("Wildfire"), Num(340522), Num(-1182437)),
      DisasterBody(Str("Fire"), Undefined, Num(340522), Num(-1182437)) }

TitleRequired == [status |-> 400,
                  body |-> [error |-> "Title and description are required"]]
DisasterCreateFailed ==
    [status |-> 500, body |-> [error |-> "Failed to create disaster"]]

\* the row POST / builds
NewDisaster(b, uuid, user, t) ==
    [id |-> "u" \o ToString(uuid),
     title |-> b.title.str,
     owner_id |-> user.id,
     audit_trail |-> << [action |-> "create", user_id |-> user.id,
                         timestamp |-> t] >>]

\* req.io.emit('disaster_created', data)
CreatedEvents(p, row) == << Event(Global, "disaster_created", row, Rid(p)) >>

\* POST /, from the arrival of the request to the await of the insert
DisasterCreateStart(p) ==
    /\ pc[p] = "idle"
    /\ Arrived < MaxRequests
    /\ served' = [served EXCEPT ![p] = served[p] + 1]
    /\ \E b \in DisasterBodies, user \in Users :
        /\ req' = [req EXCEPT ![p] = [route |-> "disaster_create", body |-> b,
                                      user |-> user]]
        /\ IF ~Truthy(b.title) \/ ~Truthy(b.description)
           THEN /\ pc' = [pc EXCEPT ![p] = "done"]
                /\ res' = [res EXCEPT ![p] = TitleRequired]
                /\ UNCHANGED <<hloc, nextUuid>>
           ELSE /\ TruthyNumber(b.lat) /\ TruthyNumber(b.lng)
                /\ nextUuid + 1 <= MaxUuid
                /\ nextUuid' = nextUuid + 1
                /\ hloc' = [hloc EXCEPT ![p].response =
                                NewDisaster(b, nextUuid + 1, user, now)]
                /\ pc' = [pc EXCEPT ![p] = "disaster_insert"]
                /\ UNCHANGED res
    /\ UNCHANGED <<geo, now, cache, disasters, resources, call, lastMut, sweep,
                   sockets>>

\* POST /, from the answer of the insert to the await of postToTwitter
DisasterCreateInsert(p) ==
    /\ pc[p] = "disaster_insert"
    /\ \E ok \in BOOLEAN :
        LET row == hloc[p].response
        IN  IF ok
            THEN /\ disasters' = disasters \cup {row}
                 /\ sockets' = EmitAll(sockets, CreatedEvents(p, row))
                 /\ hloc' = [hloc EXCEPT ![p].emitted = CreatedEvents(p, row)]
                 /\ pc' = [pc EXCEPT ![p] = "tweet"]
                 /\ UNCHANGED res
            ELSE /\ res' = [res EXCEPT ![p] = DisasterCreateFailed]
                 /\ hloc' = [hloc EXCEPT ![p].dbError = TRUE]
                 /\ pc' = [pc EXCEPT ![p] = "done"]
                 /\ UNCHANGED <<disasters, sockets>>
    /\ UNCHANGED <<geo, now, cache, resources, nextUuid, call, req, lastMut, sweep,
                   served>>

\* POST /, from the answer of postToTwitter to the response; a throw of
\* postToTwitter lands in the catch block
DisasterCreateTweet(p) ==
    /\ pc[p] = "tweet"
    /\ \E ok \in BOOLEAN :
        IF ok
        THEN /\ res' = [res EXCEPT ![p] =
                          [status |-> 201,
                           body |-> [disaster |-> hloc[p].response]]]
             /\ UNCHANGED hloc
        ELSE /\ res' = [res EXCEPT ![p] = InternalServerError]
             /\ hloc' = [hloc EXCEPT ![p].dbError = TRUE]
    /\ pc' = [pc EXCEPT ![p] = "done"]
    /\ UNCHANGED <<geo, now, cache, disasters, resources, nextUuid, call, req,
                   lastMut, sweep, served, sockets>>

----------------------------------------------------------------------------
(* routes/disasters.js: PUT /:id                                           *)

\* the titles put
Titles == {"Flood II"}

DisasterUpdateFailed ==
    [status |-> 500, body |-> [error |-> "Failed to update disaster"]]

\* req.io.emit('disaster_updated', data);
\* req.io.to(`disaster_${id}`).emit('disaster_updated', data)
UpdatedEvents(p, id, row) ==
    << Event(Global, "disaster_updated", row, Rid(p)),
       Event(Room(id), "disaster_updated", row, Rid(p)) >>

\* PUT /:id, to the await of the lookup
DisasterUpdateStart(p) ==
    /\ pc[p] = "idle"
    /\ Arrived < MaxRequests
    /\ served' = [served EXCEPT ![p] = served[p] + 1]
    /\ \E id \in Doomed, user \in Users, title \in Titles :
        req' = [req EXCEPT ![p] = [route |-> "disaster_update", id |-> id,
                                   user |-> user, title |-> title]]
    /\ pc' = [pc EXCEPT ![p] = "update_lookup"]
    /\ UNCHANGED <<geo, now, cache, disasters, resources, nextUuid, call, hloc, res,
                   lastMut, sweep, sockets>>

\* PUT /:id, from the answer of the lookup to the await of the update
DisasterUpdateLookup(p) ==
    /\ pc[p] = "update_lookup"
    /\ \E ok \in BOOLEAN :
        LET found == Single({d \in disasters : d.id = req[p].id})
        IN  IF ~ok
            THEN /\ pc' = [pc EXCEPT ![p] = "done"]
                 /\ res' = [res EXCEPT ![p] = FetchDisasterFailed]
                 /\ hloc' = [hloc EXCEPT ![p].dbError = TRUE]
            ELSE IF found = Null
            THEN /\ pc' = [pc EXCEPT ![p] = "done"]
                 /\ res' = [res EXCEPT ![p] = NotFound]
                 /\ UNCHANGED hloc
            ELSE IF found.owner_id # req[p].user.id /\ req[p].user.role # "admin"
            THEN /\ pc' = [pc EXCEPT ![p] = "done"]
                 /\ res' = [res EXCEPT ![p] = Forbidden]
                 /\ UNCHANGED hloc
            ELSE /\ pc' = [pc EXCEPT ![p] = "update_update"]
                 /\ hloc' = [hloc EXCEPT ![p].disaster = found]
                 /\ UNCHANGED res
    /\ UNCHANGED <<geo, now, cache, disasters, resources, nextUuid, call, req,
                   lastMut, sweep, served, sockets>>

\* the row .update(updates).eq('id', id) leaves: the title put, and the
\* audit trail read at the lookup with the new entry appended
UpdatedDisaster(row, existing, title, user, t) ==
    [row EXCEPT !.title = title,
                !.audit_trail =
                    Append(existing.audit_trail,
                           [action |-> "update", user_id |-> user.id,
                            timestamp |-> t, changes |-> <<"title">>])]

\* PUT /:id, from the answer of the update to the response; .single() is an
\* error when the row is gone
DisasterUpdateUpdate(p) ==
    /\ pc[p] = "update_update"
    /\ \E ok \in BOOLEAN :
        LET cur == Single({d \in disasters : d.id = req[p].id})
        IN  IF ok /\ cur # Null
            THEN LET row == UpdatedDisaster(cur, hloc[p].disaster,
                                            req[p].title, req[p].user, now)
                     events == UpdatedEvents(p, req[p].id, row)
                 IN  /\ disasters' = (disasters \ {cur}) \cup {row}
                     /\ sockets' = EmitAll(sockets, events)
                     /\ hloc' = [hloc EXCEPT ![p].emitted = events,
                                             ![p].response = row]
                     /\ res' = [res EXCEPT ![p] =
                                  [status |-> 200, body |-> [disaster |-> row]]]
            ELSE /\ res' = [res EXCEPT ![p] = DisasterUpdateFailed]
                 /\ hloc' = [hloc EXCEPT ![p].dbError = TRUE]
                 /\ UNCHANGED <<disasters, sockets>>
    /\ pc' = [pc EXCEPT ![p] = "done"]
    /\ UNCHANGED <<geo, now, cache, resources, nextUuid, call, req, lastMut, sweep,
                   served>>

----------------------------------------------------------------------------
(* routes/socialMedia.js and routes/updates.js: GET /:disasterId           *)

\* the seconds both routes cache their response for
FeedTtl == 3600

\* the requests made: the social-media posts and the official updates (no
\* source_type, no urgency) of d1
FeedRequests ==
    { [route |-> "social", disasterId |-> "d1"],
      [route |-> "updates", disasterId |-> "d1"] }

\* `social_media_${disasterId}`,
\* `official_updates_${disasterId}_${source_type}_${urgency}`
FeedKey(r) ==
    IF r.route = "social" THEN <<"social_media", r.disasterId>>
    ELSE <<"official_updates", r.disasterId, "undefined", "undefined">>

\* the response either route builds; the posts and the updates themselves
\* come from the mock generators and are not looked into
FeedResponse(r, disaster, t) ==
    [disaster_id |-> r.disasterId,
     disaster_title |-> disaster.title,
     items |-> IF r.route = "social" THEN "posts" ELSE "updates",
     last_updated |-> t]

\* GET /:disasterId, from the arrival of the request to the first await
FeedStart(p) ==
    /\ pc[p] = "idle"
    /\ Arrived < MaxRequests
    /\ served' = [served EXCEPT ![p] = served[p] + 1]
    /\ \E r \in FeedRequests :
        /\ req' = [req EXCEPT ![p] = r]
        /\ call' = [call EXCEPT ![p] = [NoCall EXCEPT !.fn = "get",
                                                      !.key = FeedKey(r)]]
    /\ pc' = [pc EXCEPT ![p] = "get_select"]
    /\ UNCHANGED <<geo, now, cache, disasters, resources, nextUuid, hloc, res,
                   lastMut, sweep, sockets>>

\* GET /:disasterId after a miss: the disaster is looked up, the response
\* built and setCachedData called with it for an hour
FeedLookup(p) ==
    /\ pc[p] = "feed_lookup"
    /\ \E ok \in BOOLEAN :
        LET found == Single({d \in disasters : d.id = req[p].disasterId})
        IN  IF ~ok
            THEN /\ pc' = [pc EXCEPT ![p] = "done"]
                 /\ res' = [res EXCEPT ![p] = FetchDisasterFailed]
                 /\ hloc' = [hloc EXCEPT ![p].dbError = TRUE]
                 /\ UNCHANGED call
            ELSE IF found = Null
            THEN /\ pc' = [pc EXCEPT ![p] = "done"]
                 /\ res' = [res EXCEPT ![p] = NotFound]
                 /\ UNCHANGED <<hloc, call>>
            ELSE LET response == FeedResponse(req[p], found, now)
                 IN  /\ hloc' = [hloc EXCEPT ![p].response = response]
                     /\ call' = [call EXCEPT ![p] =
                                   SetFrame(FeedKey(req[p]), response, FeedTtl)]
                     /\ pc' = [pc EXCEPT ![p] = "set_upsert"]
                     /\ UNCHANGED res
    /\ UNCHANGED <<geo, now, cache, disasters, resources, nextUuid, req, lastMut,
                   sweep, served, sockets>>

----------------------------------------------------------------------------
(* The change notifier: one request at a time mutating or reading the      *)
(* feeds, and the connections of the socket server                         *)

\* the requests that publish
Notifiers == {"p1"}

InitNotify ==
    /\ now = 0
    /\ cache = {}
    /\ disasters = {FirstDisaster}
    /\ resources = {}
    /\ nextUuid = 0
    /\ pc = [p \in Procs |-> "idle"]
    /\ call = [p \in Procs |-> NoCall]
    /\ req = [p \in Procs |-> NoReq]
    /\ hloc = [p \in Procs |-> NoLoc]
    /\ res = [p \in Procs |-> Null]
    /\ lastMut = << >>
    /\ sweep = NoSweep
    /\ served = [p \in Procs |-> 0]
    /\ sockets = [c \in Conns |-> NoSocket]
    /\ geo = NoGeo

NextNotify ==
    \/ \E p \in Notifiers : served[p] < MaxPublishing /\ CreateStart(p)
    \/ \E p \in Notifiers : CreateInsert(p)
    \/ \E p \in Notifiers : served[p] < MaxPublishing /\ DisasterCreateStart(p)
    \/ \E p \in Notifiers : DisasterCreateInsert(p)
    \/ \E p \in Notifiers : DisasterCreateTweet(p)
    \/ \E p \in Notifiers : served[p] < MaxPublishing /\ DisasterUpdateStart(p)
    \/ \E p \in Notifiers : DisasterUpdateLookup(p)
    \/ \E p \in Notifiers : DisasterUpdateUpdate(p)
    \/ \E p \in Notifiers : served[p] < MaxPublishing /\ DeleteStart(p)
    \/ \E p \in Notifiers : DeleteLookup(p)
    \/ \E p \in Notifiers : DeleteDelete(p)
    \/ \E p \in Notifiers : served[p] < MaxPublishing /\ FeedStart(p)
    \/ \E p \in Notifiers : GetSelect(p)
    \/ \E p \in Notifiers : FeedLookup(p)
    \/ \E p \in Notifiers : SetUpsert(p)
    \/ \E p \in Notifiers : Finish(p)
    \/ \E c \in Conns : Connect(c)
    \/ \E c \in Conns : Join(c)
    \/ \E c \in Conns : Disconnect(c)

SpecNotify == InitNotify /\ [][NextNotify]_vars

----------------------------------------------------------------------------
(* Properties of the resource search (distance field)                      *)

\* C11 (as stated): every resource of a 200 answer to a search with a
\* center carries the haversine distance to the center (the model keeps it
\* in metres).  The handler computes it for synthesized resources only; the
\* rows of the table are answered as the query gave them, so this fails.
C11_EveryResourceCarriesDistance ==
    \A p \in Searchers :
        (SearchOk(p) /\ HasCenter(req[p]))
        => \A x \in res[p].body.resources :
              /\ "distance_km" \in DOMAIN x
              /\ x.distance_km = Num(DistanceFromCenter(req[p], x))

\* C12 (as stated): in a 200 answer to a search without lat or without lng,
\* search_center is null and no resource has a distance field.  The
\* synthesized resources do have the field, set to null, so this fails.
C12_NoDistanceField ==
    \A p \in Searchers :
        (SearchOk(p) /\ ~HasCenter(req[p]))
        => /\ res[p].body.search_center = Null
           /\ \A x \in res[p].body.resources : "distance_km" \notin DOMAIN x

\* C12 (amended): in a 200 answer to a search without lat or without lng,
\* search_center is null, the rows of the table returned have no distance
\* field, and the synthesized resources have the field distance_km set to
\* null.
C12_NoDistanceValue ==
    \A p \in Searchers :
        (SearchOk(p) /\ (req[p].lat = Undefined \/ req[p].lng = Undefined))
        => /\ res[p].body.search_center = Null
           /\ \A x \in res[p].body.resources :
                IF IsMock(x) THEN x.distance_km = Null
                ELSE "distance_km" \notin DOMAIN x

\* C12 (witness): a search with lat and without lng has been answered with
\* synthesized resources
C12_Witness ==
    \E p \in Searchers :
        /\ SearchOk(p) /\ Truthy(req[p].lat) /\ ~Truthy(req[p].lng)
        /\ \E x \in res[p].body.resources : IsMock(x)

----------------------------------------------------------------------------
(* Properties of the change notifier                                       *)

\* the request of p, of the given route, has been answered
Answered(p, route) == pc[p] = "done" /\ req[p].route = route

\* the events in the inbox of connection c
Inbox(c) == {sockets[c].inbox[i] : i \in 1..Len(sockets[c].inbox)}

\* C13: a POST /resources with disaster_id, name and type is answered 201
\* or 500.  Answered 201, its row is in the table, the one event it emitted
\* is resources_updated with that row to the room of the row's disaster, and
\* the body carries the same row; answered 500, nothing was emitted and the
\* row is not in the table.
C13_PersistThenPublish ==
    \A p \in Notifiers :
        (/\ Answered(p, "create")
         /\ req[p].disaster_id # Undefined /\ req[p].name # Undefined
         /\ req[p].type # Undefined)
        => LET row == hloc[p].response
           IN  /\ res[p].status \in {201, 500}
               /\ res[p].status = 201
                    => /\ row \in resources
                       /\ res[p].body = [resource |-> row]
                       /\ hloc[p].emitted =
                            << Event(Room(req[p].disaster_id.str),
                                     "resources_updated", row, Rid(p)) >>
               /\ res[p].status = 500
                    => /\ row \notin resources
                       /\ hloc[p].emitted = << >>
                       /\ \A c \in Conns : \A e \in Inbox(c) : e.by # Rid(p)

\* C13 (witness): a POST /resources has been answered 201 and a connection
\* in the room of the disaster has been sent the event
C13_Witness ==
    \E p \in Notifiers, c \in Conns :
        /\ Answered(p, "create") /\ res[p].status = 201
        /\ \E e \in Inbox(c) : /\ e.by = Rid(p)
                               /\ e.event = "resources_updated"
                               /\ e.payload = hloc[p].response

\* C14: a POST /resources whose body lacks disaster_id, name or type is
\* answered 400 in the step in which it arrives, and that step leaves the
\* tables, the cache, the uuids drawn and the connections as they were and
\* emits nothing.
C14_InvalidAnswered400 ==
    [][\A p \in Notifiers :
          (/\ pc[p] = "idle" /\ pc'[p] # "idle"
           /\ req'[p].route = "create"
           /\ \/ req'[p].disaster_id = Undefined
              \/ req'[p].name = Undefined
              \/ req'[p].type = Undefined)
          => /\ pc'[p] = "done"
             /\ res'[p] = BadRequest
             /\ hloc'[p].emitted = << >>
             /\ UNCHANGED <<resources, disasters, cache, nextUuid, sockets>>
      ]_vars

\* C14 (witness): a POST /resources without type has been answered 400
C14_Witness ==
    \E p \in Notifiers :
        /\ Answered(p, "create") /\ req[p].type = Undefined
        /\ res[p] = BadRequest

\* the events handler p has emitted so far
Emitted(p) == {hloc[p].emitted[i] : i \in 1..Len(hloc[p].emitted)}

\* C15 (as stated): no connection is sent two events by the same request.
\* PUT /disasters/:id emits disaster_updated to every socket and again to
\* the room of the disaster, so this fails for a connection in that room.
C15_AtMostOneEventPerMutation ==
    \A c \in Conns :
        \A i, j \in 1..Len(sockets[c].inbox) :
            i # j => sockets[c].inbox[i].by # sockets[c].inbox[j].by

\* the columns of a disaster record
DisasterColumns == {"id", "title", "owner_id", "audit_trail"}

\* C16 (as stated): the payload of every event emitted is the full record
\* the mutation left (or removed).  disaster_deleted carries the id alone,
\* so this fails.
C16_PayloadIsFullRecord ==
    \A p \in Notifiers :
        \A e \in Emitted(p) :
            /\ e.event = "resources_updated"
                 => e.payload = hloc[p].response /\ e.payload \in resources
            /\ e.event \in {"disaster_created", "disaster_updated"}
                 => e.payload = hloc[p].response /\ e.payload \in disasters
            /\ e.event = "social_media_updated"
                 => e.payload = hloc[p].response
            /\ e.event = "disaster_deleted"
                 => /\ DOMAIN e.payload = DisasterColumns
                    /\ e.payload.id = req[p].id

Reached(p) == \E c \in Conns : \E e \in Inbox(c) : e.by = Rid(p)

\* in this step connection c is sent nothing, or is sent events that a
\* handler emits in this very step, c being connected before it
SentOnlyWhatIsEmitted(c) ==
    LET old == sockets[c].inbox
        new == sockets'[c].inbox
    IN  new # old
        => /\ sockets[c].status = "connected"
           /\ Len(new) > Len(old) /\ SubSeq(new, 1, Len(old)) = old
           /\ \E p \in Notifiers :
                /\ hloc[p].emitted = << >>
                /\ \A i \in (Len(old) + 1)..Len(new) :
                      \E k \in 1..Len(hloc'[p].emitted) :
                          new[i] = hloc'[p].emitted[k]

\* C18: a request that emitted to a room (POST /resources, the social-media
\* route) is answered 201 or 200 also when the event reached no connection;
\* and events are not kept for later: the inbox of a connection grows only
\* in a step in which a handler emits, never when the connection joins.
C18_NoErrorNoRetention ==
    /\ [](\A p \in Notifiers :
            (pc[p] = "done" /\ req[p].route \in {"create", "social"}
                            /\ hloc[p].emitted # << >>)
            => res[p].status = IF req[p].route = "create" THEN 201 ELSE 200)
    /\ [][\A c \in Conns : SentOnlyWhatIsEmitted(c)]_vars

\* C18 (witness): a POST /resources whose event reached nobody has been
\* answered 201, and a connection that is now in the room of that disaster
\* has not been sent the event
C18_Witness ==
    \E p \in Notifiers, c \in Conns :
        /\ Answered(p, "create") /\ res[p].status = 201
        /\ hloc[p].emitted # << >>
        /\ ~Reached(p)
        /\ Room(req[p].disaster_id.str) \in sockets[c].rooms

\* the moves of connection c in one step
ConnectionMoves(c) ==
    LET s == sockets[c]
        t == sockets'[c]
    IN  /\ t.status # s.status
           => \/ s.status = "none" /\ t.status = "connected"
              \/ s.status = "connected" /\ t.status = "disconnected"
        /\ s.status = "disconnected" => t = s
        /\ t.rooms # s.rooms
           => \/ /\ s.status = "connected" /\ t.status = "connected"
                 /\ \E id \in JoinIds : t.rooms = s.rooms \cup {Room(id)}
              \/ t.status = "disconnected" /\ t.rooms = {}

\* C19: a connection goes from connected, through any number of joins, to
\* disconnected and stays there; a join adds the room of the disaster it
\* names; a disconnected connection is in no room and is sent nothing more.
C19_ConnectionLifecycle ==
    /\ [](\A c \in Conns :
            sockets[c].status # "connected" => sockets[c].rooms = {})
    /\ [][\A c \in Conns : ConnectionMoves(c)]_vars

\* C19 (witness): a connection that was sent an event of the room of d1 has
\* disconnected, and a later request has emitted to that room an event the
\* connection was not sent
C19_Witness ==
    \E c \in Conns, p \in Notifiers :
        /\ sockets[c].status = "disconnected"
        /\ \E e \in Inbox(c) : e.scope = Room("d1")
        /\ pc[p] = "done"
        /\ \E e \in Emitted(p) : e.scope = Room("d1") /\ e \notin Inbox(c)

\* the events among those emitted that connection s is to be sent
Due(s, events) ==
    LET Mine(e) == IF e.scope = Global THEN s.status = "connected"
                   ELSE e.scope \in s.rooms
    IN  SelectSeq(events, Mine)

----------------------------------------------------------------------------
(* Properties of the search: failures, hits and the cache                  *)

\* the query for the resources of a search has failed (the disaster had
\* been found)
QueryFailed(h) == h.dbError /\ h.disaster # Null

\* C21: a search whose query for the resources fails is answered 500 with a
\* body that carries no resource list; it synthesizes nothing, builds no
\* response and makes no call of setCachedData, and the step in which the
\* query fails leaves the cache as it was.
C21_QueryFailureSurfaced ==
    /\ [](\A p \in Searchers :
            (req[p].route = "search" /\ QueryFailed(hloc[p]))
            => /\ pc[p] = "done"
               /\ res[p].status = 500
               /\ DOMAIN res[p].body = {"error"}
               /\ hloc[p].response = Null
               /\ call[p].fn # "set")
    /\ [][\A p \in Searchers :
            (req[p].route = "search" /\ ~QueryFailed(hloc[p])
                                     /\ QueryFailed(hloc'[p]))
            => cache' = cache /\ nextUuid' = nextUuid]_vars

\* C21 (witness): the query of a search of a disaster without resources has
\* failed and the cache holds no entry of the key of the request
C21_Witness ==
    \E p \in Searchers :
        /\ SearchDone(p) /\ QueryFailed(hloc[p])
        /\ QueryRows(resources, req[p]) = {}
        /\ RowsOf(CacheKey(req[p])) = {}

\* C23: a resource that is in the table stays in it as it is: no step
\* removes a row of resources or changes it.
C23_ResourcesImmutable ==
    [][\A x \in resources : x \in resources']_vars

\* C24: every row of resources has one of the six categories as its type
\* and a capacity that is not negative.
C24_CategoryAndCapacity ==
    \A x \in resources :
        /\ x.type \in {"shelter", "medical", "food", "supplies", "housing",
                       "other"}
        /\ x.capacity >= 0

----------------------------------------------------------------------------
(* Two searches at once: both request slots search, the clock stands still *)

Racers == Procs

NextRace ==
    \/ \E p \in Racers : SearchStart(p)
    \/ \E p \in Racers : GetSelect(p)
    \/ \E p \in Racers : SearchLookup(p)
    \/ \E p \in Racers : SearchQuery(p)
    \/ \E p \in Racers : SetUpsert(p)
    \/ \E p \in Racers : Finish(p)

SpecRace == InitSearch /\ [][NextRace]_vars

\* the search of p missed the cache and built a response of its own
Missed(p) == req[p].route = "search" /\ hloc[p].response # Null

\* the rows of the cache with this key after the step
RowsAfter(key) == {r \in cache' : r.key = key}

\* C25: two searches of one key that both missed are both answered 200,
\* each with the response it built itself; the cache never holds two
\* entries of the key, and holds one when an upsert of the two was taken;
\* and every upsert that is taken leaves as the one entry of the key the
\* response of the request that made it, so that the last write stays.
C25_ConcurrentMisses ==
    /\ [](\A p \in Racers, q \in Racers :
            (/\ p # q
             /\ pc[p] = "done" /\ pc[q] = "done"
             /\ Missed(p) /\ Missed(q)
             /\ CacheKey(req[p]) = CacheKey(req[q]))
            => /\ res[p] = [status |-> 200, body |-> hloc[p].response]
               /\ res[q] = [status |-> 200, body |-> hloc[q].response]
               /\ Cardinality(RowsOf(CacheKey(req[p]))) <= 1
               /\ (~hloc[p].setError \/ ~hloc[q].setError)
                  => \E r \in RowsOf(CacheKey(req[p])) :
                        r.value \in {hloc[p].response, hloc[q].response})
    /\ [][\A p \in Racers :
            (pc[p] = "set_upsert" /\ pc'[p] = "done" /\ ~hloc'[p].setError)
            => RowsAfter(call[p].key) =
                   { [key |-> call[p].key, value |-> hloc[p].response,
                      expires_at |-> call[p].expiresAt] }]_vars

\* C25 (witness): two searches of one key have both missed and built
\* different responses, both upserts were taken, and the cache holds the
\* response of one of them
C25_Witness ==
    \E p \in Racers, q \in Racers :
        /\ p # q
        /\ pc[p] = "done" /\ pc[q] = "done"
        /\ Missed(p) /\ Missed(q)
        /\ CacheKey(req[p]) = CacheKey(req[q])
        /\ hloc[p].response # hloc[q].response
        /\ ~hloc[p].setError /\ ~hloc[q].setError
        /\ \E r \in RowsOf(CacheKey(req[p])) : r.value = hloc[q].response

----------------------------------------------------------------------------
(* Properties of the search and the cache                                  *)

\* the search of p is answered from the cache in this step
Hit(p) ==
    req[p].route = "search" /\ pc[p] = "get_select" /\ pc'[p] = "done"

\* C26: a search answered from the cache returns the value of the entry of
\* its key as stored, an entry written no more than 1800 s before, and
\* that step looks up no disaster, queries and synthesizes nothing and
\* writes nothing; a search goes on to the lookup and the query only when
\* getCachedData gave it nothing, and the setCachedData call that follows
\* stores the response it built under the same key for 1800 s.
C26_ProbeFirst ==
    /\ [][\A p \in Searchers :
            Hit(p) =>
              /\ \E r \in RowsOf(call[p].key) :
                    /\ res'[p] = [status |-> 200, body |-> r.value]
                    /\ r.value.last_updated + (1800 * 1000) >= now
              /\ cache' = cache /\ nextUuid' = nextUuid
              /\ hloc'[p].disaster = Null /\ hloc'[p].response = Null
              /\ call'[p].fn = "get"]_vars
    /\ [](\A p \in Searchers :
            req[p].route = "search" =>
              /\ pc[p] \in {"lookup", "query", "set_upsert"}
                 => GetResult(~call[p].error, call[p].data) = Null
                    \/ IsExpired(call[p].data.expires_at, call[p].at)
                    \/ call[p].fn = "set"
              /\ call[p].fn = "set"
                 => /\ call[p].key = CacheKey(req[p])
                    /\ call[p].value = hloc[p].response
                    /\ call[p].ttl = 1800
                    /\ call[p].expiresAt = call[p].t0 + (1800 * 1000))

\* C26 (witness): a search has been answered from the cache while the table
\* holds a resource of the disaster that the answer does not list
C26_Witness ==
    \E p \in Searchers :
        /\ SearchOk(p) /\ hloc[p].response = Null
        /\ \E x \in QueryRows(resources, req[p]) :
              x \notin res[p].body.resources

----------------------------------------------------------------------------
(* The cache with a sweep that keeps running                               *)

\* cleanExpiredCache() whose delete the datastore takes
SweepDeleteTaken == SweepDelete /\ sweep'.last # "error"

\* entries are written and never read: setCachedData calls, the sweep and
\* the clock
NextSwept ==
    \/ \E p \in Callers : SetCall(p)
    \/ \E p \in Callers : SetUpsert(p)
    \/ \E p \in Callers : Finish(p)
    \/ SweepCall
    \/ SweepDelete
    \/ Tick

\* the interval timer keeps firing, the datastore takes the delete of the
\* sweep again and again, and the clock advances
SpecSwept ==
    /\ Init /\ [][NextSwept]_vars
    /\ WF_vars(SweepCall)
    /\ SF_vars(SweepDeleteTaken)
    /\ WF_vars(Tick)

\* the expiry times of the entries of the cache specification that the
\* clock can pass: an entry is written at a time t <= MaxNow with a ttl of
\* Ttls
Expiries ==
    {e \in {t + (ttl * MsPerSecond) : t \in {0, 1000, 2000}, ttl \in Ttls} :
        e < MaxNow}

\* the table holds an entry of key k expiring at e
Holds(k, e) == \E r \in cache : r.key = k /\ r.expires_at = e

\* C27: an entry whose expiry has passed is eventually out of the table,
\* whether or not its key is read again, when the sweep keeps running and
\* its delete keeps being taken.
C27_ExpiredEventuallyDeleted ==
    \A k \in Keys, e \in Expiries :
        (Holds(k, e) /\ e < now) ~> ~Holds(k, e)

\* C27 (witness): the sweep has deleted an entry that no get call had read,
\* and the table is empty
C27_Witness ==
    /\ sweep.pc = "idle" /\ sweep.last = "swept"
    /\ \E k \in Keys : lastMut[k].kind = "delete"
    /\ cache = {}

----------------------------------------------------------------------------
(* The cache read by one request while another writes                      *)

Getters == {"p1"}
Setters == {"p2"}

NextLazy ==
    \/ \E p \in Getters : GetCall(p)
    \/ \E p \in Getters : GetSelect(p)
    \/ \E p \in Getters : GetDelete(p)
    \/ \E p \in Setters : SetCall(p)
    \/ \E p \in Setters : SetUpsert(p)
    \/ \E p \in Procs : Finish(p)
    \/ Tick

\* an empty table; no history of the writes is kept
InitLazy ==
    /\ now = 0
    /\ cache = {}
    /\ disasters = {}
    /\ resources = {}
    /\ nextUuid = 0
    /\ pc = [p \in Procs |-> "idle"]
    /\ call = [p \in Procs |-> NoCall]
    /\ req = [p \in Procs |-> NoReq]
    /\ hloc = [p \in Procs |-> NoLoc]
    /\ res = [p \in Procs |-> Null]
    /\ lastMut = << >>
    /\ sweep = NoSweep
    /\ served = [p \in Procs |-> 0]
    /\ sockets = [c \in Conns |-> NoSocket]
    /\ geo = NoGeo

SpecLazy == InitLazy /\ [][NextLazy]_vars

\* C28: the delete of getCachedData removes no entry whose expiry is still
\* in the future, whatever setCachedData calls of other requests come
\* between its select and its delete.
C28_LazyEvictionOnlyExpired ==
    [][\A p \in Getters :
          (pc[p] = "get_delete" /\ pc'[p] # "get_delete")
          => \A r \in cache : r \notin cache' => r.expires_at <= now]_vars

----------------------------------------------------------------------------
(* The search beside every mutating route: one request searches while the  *)
(* other creates resources and creates, updates and deletes disasters      *)

NextFrame ==
    \/ \E p \in Searchers : SearchStart(p)
    \/ \E p \in Searchers : GetSelect(p)
    \/ \E p \in Searchers : SearchLookup(p)
    \/ \E p \in Searchers : SearchQuery(p)
    \/ \E p \in Searchers : SetUpsert(p)
    \/ \E p \in Mutators : CreateStart(p)
    \/ \E p \in Mutators : CreateInsert(p)
    \/ \E p \in Mutators : DisasterCreateStart(p)
    \/ \E p \in Mutators : DisasterCreateInsert(p)
    \/ \E p \in Mutators : DisasterCreateTweet(p)
    \/ \E p \in Mutators : DisasterUpdateStart(p)
    \/ \E p \in Mutators : DisasterUpdateLookup(p)
    \/ \E p \in Mutators : DisasterUpdateUpdate(p)
    \/ \E p \in Mutators : DeleteStart(p)
    \/ \E p \in Mutators : DeleteLookup(p)
    \/ \E p \in Mutators : DeleteDelete(p)
    \/ \E p \in Procs : Finish(p)

SpecFrame == InitSearch /\ [][NextFrame]_vars

\* the routes that change the tables of disasters and resources
MutatingRoutes ==
    {"create", "disaster_create", "disaster_update", "delete"}

----------------------------------------------------------------------------
(* Two updates of one disaster at once                                     *)

Updaters == Procs

NextAudit ==
    \/ \E p \in Updaters : DisasterUpdateStart(p)
    \/ \E p \in Updaters : DisasterUpdateLookup(p)
    \/ \E p \in Updaters : DisasterUpdateUpdate(p)
    \/ \E p \in Updaters : Finish(p)

SpecAudit == InitSearch /\ [][NextAudit]_vars

\* the updates of disaster id that have been answered 200 and whose
\* requests are still at hand
UpdatedOk(id) ==
    {p \in Procs : /\ Answered(p, "disaster_update") /\ req[p].id = id
                   /\ res[p].status = 200}

\* C30: the audit trail of a disaster starts with its create entry and holds
\* an update entry for every update of it that was answered 200.
C30_AuditTrailComplete ==
    \A d \in disasters :
        /\ Len(d.audit_trail) >= 1 + Cardinality(UpdatedOk(d.id))
        /\ d.audit_trail[1].action = "create"
        /\ \A i \in 2..Len(d.audit_trail) : d.audit_trail[i].action = "update"

====
